---- MODULE Spec2Model ----
(***************************************************************************)
(* A model of MorphoMedia's feed algorithms (src/algorithm.py):            *)
(*   - the Mode Resolver (WEIGHTS, night_mode_settings, get_mode_settings) *)
(*   - the scoring helpers (diversity_counter, score_parts,                *)
(*     would_break_streak)                                                 *)
(*   - the Greedy Feed Builder (build_prototype_feed), one action per      *)
(*     call, loop iteration and return, over a small heap of data frames   *)
(*     so that aliasing between the caller's pool and the builder's        *)
(*     working copy can be expressed.                                      *)
(* Python floats are modelled as exact rationals [n, d]; float("-inf") is  *)
(* the tagged value NegInf.                                                *)
(***************************************************************************)
EXTENDS Integers, Sequences, FiniteSets, TLC

VARIABLES
    frames,          \* heap of data frames: ref -> [cols, rows]
    df0,             \* history variable: the caller's pool as first passed
    args,            \* per run: the arguments of build_prototype_feed
    pc,              \* per run: "idle", "loop", "done" or "raised"
    remaining,       \* per run: the ref the local `remaining` is bound to
    feed_rows,       \* per run: the list feed_rows
    recent_topics,   \* per run: the list recent_topics (full history)
    recent_channels, \* per run: the list recent_channels (full history)
    iter,            \* per run: iterations of `for _ in range(k)` started
    pick_log,        \* per run (history variable): what each iteration saw
    result,          \* per run: the returned frame
    WEIGHTS,         \* the module-level preset table
    mode_ret,        \* outcome of the last Mode Resolver call
    mode_prev,       \* history variable: outcome of the call before it
    prep_ret,        \* outcome of the last helper call (dataset prep,
                     \* scoring, baseline ranking)
    prep_prev,       \* history variable: outcome of the call before it
    EMBED_CACHE,     \* the demo server's module-level dict: video id -> bool
    handler,         \* per request thread of the server: where it is in
                     \* _check_embed, its locals and the response it sent
    lookup_log       \* history variable: the external lookups made

vars == <<frames, df0, args, pc, remaining, feed_rows, recent_topics,
          recent_channels, iter, pick_log, result, WEIGHTS, mode_ret,
          mode_prev, prep_ret, prep_prev, EMBED_CACHE, handler, lookup_log>>

buildVars == <<frames, df0, args, pc, remaining, feed_rows, recent_topics,
               recent_channels, iter, pick_log, result>>

modeVars == <<WEIGHTS, mode_ret, mode_prev>>

prepVars == <<prep_ret, prep_prev>>

webVars == <<EMBED_CACHE, handler, lookup_log>>

-----------------------------------------------------------------------------
(* Bounds of the model *)

MaxN == 3

MaxKDelta == 4

MaxCount == 2

-----------------------------------------------------------------------------
(* Exact rational arithmetic standing for Python floats *)

\* The arithmetic is written as functions so that each operand is evaluated
\* once, where it is applied.

Abs(x) == IF x < 0 THEN -x ELSE x

\* Euclid's algorithm
gcd[a \in Nat, b \in Nat] == IF b = 0 THEN a ELSE gcd[b, a % b]

\* the fraction n/d (d > 0) in lowest terms
norm[n \in Int, d \in Int] ==
    IF n = 0 THEN [n |-> 0, d |-> 1]
    ELSE LET g == gcd[Abs(n), d] IN [n |-> n \div g, d |-> d \div g]

Rat == [n : Int, d : Int]

R(n, d) == norm[n, d]

Zero == [n |-> 0, d |-> 1]

One == [n |-> 1, d |-> 1]

Half == [n |-> 1, d |-> 2]

radd[a \in Rat, b \in Rat] == norm[a.n * b.d + b.n * a.d, a.d * b.d]

rsub[a \in Rat, b \in Rat] == norm[a.n * b.d - b.n * a.d, a.d * b.d]

rmul[a \in Rat, b \in Rat] == norm[a.n * b.n, a.d * b.d]

\* a / b for b # 0
rdiv[a \in Rat, b \in Rat] ==
    IF b.n > 0 THEN norm[a.n * b.d, a.d * b.n]
    ELSE norm[-(a.n * b.d), a.d * (-b.n)]

RAdd(a, b) == radd[a, b]

RSub(a, b) == rsub[a, b]

RMul(a, b) == rmul[a, b]

RDiv(a, b) == rdiv[a, b]

\* float("-inf"): below every number, equal only to itself
NegInf == [n |-> -1, d |-> 0]

FLess(a, b) ==
    IF b = NegInf THEN FALSE
    ELSE IF a = NegInf THEN TRUE
    ELSE a.n * b.d < b.n * a.d

-----------------------------------------------------------------------------
(* Presets / Modes *)

Keys == {"e", "d", "p", "r"}

WEIGHTS0 ==
    [baseline |-> [e |-> R(100, 100), d |-> R(0, 100), p |-> R(0, 100), r |-> R(0, 100)],
     entertainment |-> [e |-> R(55, 100), d |-> R(20, 100), p |-> R(15, 100), r |-> R(10, 100)],
     inspiration |-> [e |-> R(30, 100), d |-> R(40, 100), p |-> R(20, 100), r |-> R(10, 100)],
     learning |-> [e |-> R(30, 100), d |-> R(30, 100), p |-> R(30, 100), r |-> R(10, 100)]]

NIGHT_MODE_K == 15

RISK_BOOST == R(5, 100)

K_DEFAULT == 100

\* sum(w2.values())
SumValues(w) == RAdd(RAdd(w["e"], w["d"]), RAdd(w["p"], w["r"]))


\* mutant: w2 = w, the preset's own dict
DictAlias(src) == src

\* w2 = dict(w): the dict the copy is stored in. A fresh dict, never one of
\* the preset table's
DictCopy(src) == "w2"

\* w2["r"] = w2.get("r", 0.0) + risk_boost
BoostRisk(w, risk_boost) == [w EXCEPT !["r"] = RAdd(w["r"], risk_boost)]

\* mutant: the boosted weights are returned as they are
RenormaliseSkipped(w2) == w2

\* total = sum(w2.values()); if total != 0: w2[key] = w2[key] / total
Renormalise(w2) ==
    LET total == SumValues(w2)
    IN  IF total # Zero THEN [key \in Keys |-> RDiv(w2[key], total)] ELSE w2

\* night_mode_settings(w, risk_boost): the pair (new_weights, k)
night_mode_settings(w, risk_boost) ==
    <<Renormalise(BoostRisk(w, risk_boost)), NIGHT_MODE_K>>

\* The preset table after night_mode_settings wrote new weights into the dict
\* `target`: unchanged unless target is one of the table's own dicts
TableAfterWrite(table, target, w2) ==
    IF target \in DOMAIN table THEN [table EXCEPT ![target] = w2] ELSE table

\* preset names a caller may pass: the table's and two that are not in it
UnknownPresets == {"Entertainment", "relax"}

PresetNames == DOMAIN WEIGHTS0 \cup UnknownPresets

KDefaults == ((NIGHT_MODE_K - MaxKDelta)..(NIGHT_MODE_K + MaxKDelta)) \cup {K_DEFAULT}

NoCall ==
    [fn |-> "none", preset |-> "", night_mode |-> FALSE, k_default |-> 0,
     raised |-> "", transformed |-> FALSE, ret |-> <<>>]

\* mutant: an unknown preset falls back to the default preset's weights
ReturnDefault(preset, night_mode, k_default) ==
    [fn |-> "get_mode_settings", preset |-> preset, night_mode |-> night_mode,
     k_default |-> k_default, raised |-> "", transformed |-> FALSE,
     ret |-> <<WEIGHTS0["entertainment"], k_default>>]

\* raise KeyError(f"Unknown preset: ..."): the call ends with no result
RaiseUnknown(preset, night_mode, k_default) ==
    [fn |-> "get_mode_settings", preset |-> preset, night_mode |-> night_mode,
     k_default |-> k_default, raised |-> "KeyError", transformed |-> FALSE,
     ret |-> <<>>]

\* get_mode_settings(preset, night_mode, k_default)
GetModeSettings(preset, night_mode, k_default) ==
    /\ IF preset \notin DOMAIN WEIGHTS
       THEN /\ mode_ret' = RaiseUnknown(preset, night_mode, k_default)
            /\ WEIGHTS' = WEIGHTS
       ELSE IF night_mode
       THEN LET out == night_mode_settings(WEIGHTS[preset], RISK_BOOST)
            IN  /\ mode_ret' = [fn |-> "get_mode_settings", preset |-> preset,
                                night_mode |-> night_mode, k_default |-> k_default,
                                raised |-> "", transformed |-> TRUE,
                                ret |-> out]
                /\ WEIGHTS' = TableAfterWrite(WEIGHTS, DictCopy(preset), out[1])
       ELSE /\ mode_ret' = [fn |-> "get_mode_settings", preset |-> preset,
                            night_mode |-> night_mode, k_default |-> k_default,
                            raised |-> "", transformed |-> FALSE,
                            ret |-> <<WEIGHTS[preset], k_default>>]
            /\ WEIGHTS' = WEIGHTS
    /\ mode_prev' = mode_ret
    /\ UNCHANGED <<buildVars, prepVars, webVars>>

\* night_mode_settings(WEIGHTS[preset]) called directly, as run_demo does
NightModeSettings(preset) ==
    /\ preset \in DOMAIN WEIGHTS
    /\ LET out == night_mode_settings(WEIGHTS[preset], RISK_BOOST)
       IN  /\ mode_ret' = [fn |-> "night_mode_settings", preset |-> preset,
                           night_mode |-> TRUE, k_default |-> K_DEFAULT,
                           raised |-> "", transformed |-> TRUE, ret |-> out]
           /\ WEIGHTS' = TableAfterWrite(WEIGHTS, DictCopy(preset), out[1])
    /\ mode_prev' = mode_ret
    /\ UNCHANGED <<buildVars, prepVars, webVars>>

-----------------------------------------------------------------------------
(* Scoring helpers *)

\* Python's list[-m:]: the last m entries, the whole list when m = 0 or
\* m >= len(list)
PyTail(list, m) ==
    IF m = 0 \/ m >= Len(list) THEN list
    ELSE SubSeq(list, Len(list) - m + 1, Len(list))

\* a Python list built by a comprehension or a loop of appends
AsList(f) == SubSeq(f, 1, Len(f))

InList(x, list) == \E i \in 1..Len(list) : list[i] = x

\* mutant: a new topic and a new channel count 1 each
diversity_counter_whole(topic, channel, window_topics, window_channels) ==
    LET topic_new == IF ~InList(topic, window_topics) THEN 1 ELSE 0
        channel_new == IF ~InList(channel, window_channels) THEN 1 ELSE 0
    IN  R(topic_new + channel_new, 1)

diversity_counter(topic, channel, window_topics, window_channels) ==
    LET topic_new == IF ~InList(topic, window_topics) THEN 1 ELSE 0
        channel_new == IF ~InList(channel, window_channels) THEN 1 ELSE 0
    IN  RAdd(RMul(Half, R(topic_new, 1)), RMul(Half, R(channel_new, 1)))

\* mutant: the risk term is added like the others
score_parts_risk_added(e, d, p, r, w) ==
    RAdd(RAdd(RAdd(RMul(e, w["e"]), RMul(d, w["d"])), RMul(p, w["p"])),
         RMul(r, w["r"]))

score_parts(e, d, p, r, w) ==
    RSub(RAdd(RAdd(RMul(e, w["e"]), RMul(d, w["d"])), RMul(p, w["p"])),
         RMul(r, w["r"]))

\* mutant: no `if len(recent_list) < max_streak: return False`
would_break_streak_nolen(recent_list, candidate_value, max_streak) ==
    LET tail == PyTail(recent_list, max_streak)
    IN  \A i \in 1..Len(tail) : tail[i] = candidate_value

would_break_streak(recent_list, candidate_value, max_streak) ==
    IF Len(recent_list) < max_streak THEN FALSE
    ELSE LET tail == PyTail(recent_list, max_streak)
         IN  \A i \in 1..Len(tail) : tail[i] = candidate_value

-----------------------------------------------------------------------------
(* Data frames *)

Runs == {1, 2}

\* mutant: every run works in one module-level frame
WorkShared(r) == "work1"

\* the object a run's pandas calls allocate for its working frame
Work(r) == IF r = 1 THEN "work1" ELSE "work2"

\* "out" is the object a dataset-prep call allocates for its result
Refs == {"df", "work1", "work2", "out"}

BaseCols == {"id", "topic", "channel", "engagement", "prosocial", "risk"}

EmptyFrame == [cols |-> {}, rows |-> <<>>]

\* DataFrame.empty: no rows or no columns
IsEmpty(fr) == Len(fr.rows) = 0 \/ fr.cols = {}

\* mutant: the call works in place, its result is the object it was given
SameFrame(src, fresh) == src

\* A pandas call that returns a new object (df.copy(), remaining.copy(),
\* drop(...).reset_index(drop=True)): the ref its result lives at
NewFrame(src, fresh) == fresh

\* the row with the columns diversity and score set
Annotate(row, d, s) ==
    [id |-> row.id, topic |-> row.topic, channel |-> row.channel,
     engagement |-> row.engagement, prosocial |-> row.prosocial,
     risk |-> row.risk, diversity |-> d, score |-> s]

\* mutant: the picked row stays in the pool
DropNone(rows, i) == rows

\* mutant: the last row is dropped, whichever row was picked
DropLastRow(rows, i) == SubSeq(rows, 1, Len(rows) - 1)

\* rows without position i: drop(index=i).reset_index(drop=True)
DropRow(rows, i) == SubSeq(rows, 1, i - 1) \o SubSeq(rows, i + 1, Len(rows))

-----------------------------------------------------------------------------
(* build_prototype_feed *)

\* mutant: the streak rule is checked on the topic only
BlockedOnTopic(row, topics, channels, max_streak) ==
    would_break_streak(topics, row.topic, max_streak)

\* the candidate is blocked: it breaks the streak rule on topic or channel
Blocked(row, topics, channels, max_streak) ==
    \/ would_break_streak(topics, row.topic, max_streak)
    \/ would_break_streak(channels, row.channel, max_streak)

\* diversity and score of one candidate, streak rule ignored
RelaxedEntry(row, window_topics, window_channels, w) ==
    LET d == diversity_counter(row.topic, row.channel, window_topics, window_channels)
    IN  [diversity |-> d,
         score |-> score_parts(row.engagement, d, row.prosocial, row.risk, w)]

\* diversity and score of one candidate in the first pass of an iteration
StrictEntry(row, topics, channels, window_topics, window_channels, w, max_streak) ==
    IF Blocked(row, topics, channels, max_streak)
    THEN [diversity |-> Zero, score |-> NegInf]
    ELSE RelaxedEntry(row, window_topics, window_channels, w)

\* Series.max() of a non-empty list of entries
ScoreMax(entries) ==
    LET i == CHOOSE i \in 1..Len(entries) :
                 \A j \in 1..Len(entries) : ~FLess(entries[i].score, entries[j].score)
    IN  entries[i].score

\* mutant: idxmin, the first position holding the minimum
IdxMin(entries) ==
    IF Len(entries) = 0 THEN 0
    ELSE CHOOSE i \in 1..Len(entries) :
             /\ \A j \in 1..Len(entries) : ~FLess(entries[j].score, entries[i].score)
             /\ \A j \in 1..(i - 1) : FLess(entries[i].score, entries[j].score)

\* mutant: the last position holding the maximum
IdxMaxLast(entries) ==
    IF Len(entries) = 0 THEN 0
    ELSE CHOOSE i \in 1..Len(entries) :
             /\ \A j \in 1..Len(entries) : ~FLess(entries[i].score, entries[j].score)
             /\ \A j \in (i + 1)..Len(entries) : FLess(entries[j].score, entries[i].score)

\* Series.idxmax(): the first position holding the maximum; 0 stands for the
\* ValueError it raises on an empty series
IdxMax(entries) ==
    IF Len(entries) = 0 THEN 0
    ELSE CHOOSE i \in 1..Len(entries) :
             /\ \A j \in 1..Len(entries) : ~FLess(entries[i].score, entries[j].score)
             /\ \A j \in 1..(i - 1) : FLess(entries[j].score, entries[i].score)

\* mutant: the fallback is taken as soon as one candidate is blocked
\* (min() in place of max())
AnyBlocked(entries) == \E i \in 1..Len(entries) : entries[i].score = NegInf

\* mutant: the fallback is never taken
NeverAllBlocked(entries) == FALSE

\* every candidate was blocked: remaining["score"].max() == float("-inf")
AllBlocked(entries) == Len(entries) > 0 /\ ScoreMax(entries) = NegInf

\* mutant: the streak rule is checked on the windows, not on the histories
StrictEntriesWindowed(rows, topics, channels, w, recent_window, max_streak) ==
    AsList([i \in 1..Len(rows) |->
        StrictEntry(rows[i], PyTail(topics, recent_window),
                    PyTail(channels, recent_window), PyTail(topics, recent_window),
                    PyTail(channels, recent_window), w, max_streak)])

\* the first pass over the candidates (streak rule enforced)
StrictEntries(rows, topics, channels, w, recent_window, max_streak) ==
    AsList([i \in 1..Len(rows) |->
        StrictEntry(rows[i], topics, channels, PyTail(topics, recent_window),
                    PyTail(channels, recent_window), w, max_streak)])

\* mutant: the second pass leaves the lists of the first pass in place
RelaxedEntriesStale(rows, topics, channels, w, recent_window) ==
    AsList([i \in 1..Len(rows) |-> [diversity |-> Zero, score |-> NegInf]])

\* the second pass, made when everything is blocked (streak rule ignored)
RelaxedEntries(rows, topics, channels, w, recent_window) ==
    AsList([i \in 1..Len(rows) |->
        RelaxedEntry(rows[i], PyTail(topics, recent_window),
                     PyTail(channels, recent_window), w)])

\* mutant: the loop ignores k and runs until the pool is empty
LoopEndsIgnoringK(i, k, fr) == IsEmpty(fr)

\* mutant: the loop has no `if remaining.empty: break`
LoopEndsNoEmptyCheck(i, k, fr) == i >= k

\* the loop is over: range(k) is used up, or `if remaining.empty: break`
LoopEnds(i, k, fr) == i >= k \/ IsEmpty(fr)

\* the caller loads its candidate pool (read_csv, validate_and_clean,
\* add_engagement) into the frame it will pass to the builder
LoadPool(pools) ==
    /\ frames["df"].cols = {}
    /\ \E pool \in pools :
           /\ frames' = [frames EXCEPT !["df"] = [cols |-> BaseCols, rows |-> pool]]
           /\ df0' = [cols |-> BaseCols, rows |-> pool]
    /\ UNCHANGED <<args, pc, remaining, feed_rows, recent_topics,
                   recent_channels, iter, pick_log, result, modeVars, prepVars, webVars>>

\* build_prototype_feed(df, weights, k, recent_window, max_streak) is called
\* with arguments from argsets: remaining = df.copy().reset_index(drop=True);
\* the lists start empty
Call(r, argsets) ==
    /\ frames["df"].cols # {}
    /\ pc[r] = "idle"
    /\ \E a \in argsets : args' = [args EXCEPT ![r] = a]
    /\ LET ref == NewFrame("df", Work(r))
       IN  /\ frames' = [frames EXCEPT ![ref] = frames["df"]]
           /\ remaining' = [remaining EXCEPT ![r] = ref]
    /\ feed_rows' = [feed_rows EXCEPT ![r] = <<>>]
    /\ recent_topics' = [recent_topics EXCEPT ![r] = <<>>]
    /\ recent_channels' = [recent_channels EXCEPT ![r] = <<>>]
    /\ iter' = [iter EXCEPT ![r] = 0]
    /\ pc' = [pc EXCEPT ![r] = "loop"]
    /\ UNCHANGED <<df0, pick_log, result, modeVars, prepVars, webVars>>

\* the rest of an iteration once the diversity and score lists are computed
\* (lines 195-230): annotate the copy, pick, log, drop
Pick(r, rows, strict, entries) ==
    LET a == args[r]
        copy == NewFrame(remaining[r], Work(r))
        best_idx == IdxMax(entries)
    IN  IF best_idx = 0
        THEN /\ pc' = [pc EXCEPT ![r] = "raised"]
             /\ UNCHANGED <<frames, remaining, feed_rows, recent_topics,
                            recent_channels, pick_log>>
        ELSE \E scored \in {AsList([i \in 1..Len(rows) |->
                  Annotate(rows[i], entries[i].diversity, entries[i].score)])} :
             LET best_row == scored[best_idx]
                 rest == NewFrame(copy, Work(r))
                 cols == frames[remaining[r]].cols \cup {"diversity", "score"}
                 written == [frames EXCEPT ![copy] = [cols |-> cols, rows |-> scored]]
                 \* the candidates the first pass blocked (score -inf)
                 flagged == {i \in 1..Len(rows) : strict[i].score = NegInf}
             IN  /\ frames' = [written EXCEPT ![rest] =
                                  [cols |-> cols, rows |-> DropRow(scored, best_idx)]]
                 /\ remaining' = [remaining EXCEPT ![r] = rest]
                 /\ feed_rows' = [feed_rows EXCEPT ![r] = Append(@, best_row)]
                 /\ recent_topics' =
                        [recent_topics EXCEPT ![r] = Append(@, best_row.topic)]
                 /\ recent_channels' =
                        [recent_channels EXCEPT ![r] = Append(@, best_row.channel)]
                 /\ pick_log' = [pick_log EXCEPT ![r] = Append(@,
                        [relaxed |-> AllBlocked(strict),
                         flagged |-> best_idx \in flagged,
                         unflagged |-> {rows[i].id : i \in (1..Len(rows)) \ flagged}])]
                 /\ pc' = pc

\* one iteration of `for _ in range(k)`
Iterate(r) ==
    /\ pc[r] = "loop"
    /\ ~LoopEnds(iter[r], args[r].k, frames[remaining[r]])
    /\ LET a == args[r]
           rows == frames[remaining[r]].rows
       IN  \E strict \in {StrictEntries(rows, recent_topics[r], recent_channels[r],
                              a.weights, a.recent_window, a.max_streak)} :
           \E entries \in {IF AllBlocked(strict)
                           THEN RelaxedEntries(rows, recent_topics[r],
                                    recent_channels[r], a.weights, a.recent_window)
                           ELSE strict} :
               Pick(r, rows, strict, entries)
    /\ iter' = [iter EXCEPT ![r] = @ + 1]
    /\ UNCHANGED <<df0, args, result, modeVars, prepVars, webVars>>

\* return pd.DataFrame(feed_rows)
Return(r) ==
    /\ pc[r] = "loop"
    /\ LoopEnds(iter[r], args[r].k, frames[remaining[r]])
    /\ result' = [result EXCEPT ![r] =
           [cols |-> IF feed_rows[r] = <<>> THEN {}
                     ELSE frames[remaining[r]].cols,
            rows |-> feed_rows[r]]]
    /\ pc' = [pc EXCEPT ![r] = "done"]
    /\ UNCHANGED <<frames, df0, args, remaining, feed_rows, recent_topics,
                   recent_channels, iter, pick_log, modeVars, prepVars, webVars>>

-----------------------------------------------------------------------------
(* The demo server's embed check *)

\* the request threads ThreadingHTTPServer starts, one per request
Handlers == {1, 2}

ID_LIMIT == 32

\* str.strip() on a string held as its sequence of characters
RECURSIVE LStrip(_)
LStrip(s) == IF s # <<>> /\ Head(s) = " " THEN LStrip(Tail(s)) ELSE s

RECURSIVE RStrip(_)
RStrip(s) ==
    IF s # <<>> /\ s[Len(s)] = " " THEN RStrip(SubSeq(s, 1, Len(s) - 1)) ELSE s

Strip(s) == RStrip(LStrip(s))

\* s[:32]
Truncate(s) == IF Len(s) <= ID_LIMIT THEN s ELSE SubSeq(s, 1, ID_LIMIT)

\* [str(v).strip()[:32] for v in raw_ids if str(v).strip()]
RECURSIVE VideoIds(_)
VideoIds(raw_ids) ==
    IF raw_ids = <<>> THEN <<>>
    ELSE LET v == Strip(Head(raw_ids))
         IN  (IF v # <<>> THEN <<Truncate(v)>> ELSE <<>>) \o VideoIds(Tail(raw_ids))

\* an empty dict
EmptyDict == [key \in {} |-> FALSE]

\* d[key] = value
DictSet(d, key, value) ==
    [k \in DOMAIN d \cup {key} |-> IF k = key THEN value ELSE d[k]]

NoResponse == [code |-> 0, status |-> EmptyDict]

IdleHandler ==
    [pc |-> "idle", video_ids |-> <<>>, i |-> 1, ok |-> FALSE,
     status |-> EmptyDict, response |-> NoResponse]

\* POST /api/check/embed reaches _check_embed in a thread of its own: the
\* payload is read, a video_ids that is not a list is answered with 400,
\* otherwise the ids are cleaned and the loop starts
Receive(t, payloads) ==
    /\ handler[t].pc = "idle"
    /\ \E payload \in payloads :
           handler' = [handler EXCEPT ![t] =
               IF ~payload.is_list
               THEN [@ EXCEPT !.pc = "done",
                              !.response = [code |-> 400, status |-> EmptyDict]]
               ELSE [@ EXCEPT !.pc = "loop",
                              !.video_ids = VideoIds(payload.raw_ids),
                              !.i = 1,
                              !.status = EmptyDict]]
    /\ UNCHANGED <<EMBED_CACHE, lookup_log, buildVars, modeVars, prepVars>>

\* `if vid in EMBED_CACHE: status[vid] = EMBED_CACHE[vid]; continue`, or the
\* miss that sends the thread to the lookup. Keys are never deleted, so the
\* test and the read are taken as one step at the time of the read.
CheckCache(t) ==
    LET h == handler[t]
    IN  /\ h.pc = "loop"
        /\ h.i <= Len(h.video_ids)
        /\ LET vid == h.video_ids[h.i]
           IN  handler' = [handler EXCEPT ![t] =
                   IF vid \in DOMAIN EMBED_CACHE
                   THEN [@ EXCEPT !.status = DictSet(h.status, vid, EMBED_CACHE[vid]),
                                  !.i = h.i + 1]
                   ELSE [@ EXCEPT !.pc = "lookup"]]
        /\ UNCHANGED <<EMBED_CACHE, lookup_log, buildVars, modeVars, prepVars>>

\* urlopen(req, timeout=4): the thread blocks on the network; the answer is
\* a 2xx status (ok = True), or another status or an exception (ok = False)
Lookup(t) ==
    LET h == handler[t]
    IN  /\ h.pc = "lookup"
        /\ \E ok \in BOOLEAN :
               /\ handler' = [handler EXCEPT ![t] = [@ EXCEPT !.ok = ok, !.pc = "store"]]
               /\ lookup_log' = Append(lookup_log, [vid |-> h.video_ids[h.i], ok |-> ok])
        /\ UNCHANGED <<EMBED_CACHE, buildVars, modeVars, prepVars>>

\* EMBED_CACHE[vid] = ok; status[vid] = ok
Store(t) ==
    LET h == handler[t]
    IN  /\ h.pc = "store"
        /\ EMBED_CACHE' = DictSet(EMBED_CACHE, h.video_ids[h.i], h.ok)
        /\ handler' = [handler EXCEPT ![t] =
               [@ EXCEPT !.status = DictSet(h.status, h.video_ids[h.i], h.ok),
                         !.i = h.i + 1,
                         !.pc = "loop"]]
        /\ UNCHANGED <<lookup_log, buildVars, modeVars, prepVars>>

\* return json_response(self, 200, {"status": status})
Respond(t) ==
    LET h == handler[t]
    IN  /\ h.pc = "loop"
        /\ h.i > Len(h.video_ids)
        /\ handler' = [handler EXCEPT ![t] =
               [@ EXCEPT !.pc = "done",
                         !.response = [code |-> 200, status |-> h.status]]]
        /\ UNCHANGED <<EMBED_CACHE, lookup_log, buildVars, modeVars, prepVars>>

-----------------------------------------------------------------------------
(* Dataset prep *)

\* float("nan")
NaN == [n |-> 0, d |-> 0]

\* a data-prep call's record: the frame it was given, what it raised, the
\* frame it returned and the float it returned with it
NoPrep ==
    [fn |-> "none", arg |-> EmptyFrame, raised |-> "", ret |-> EmptyFrame,
     max_views |-> NaN]

REQUIRED_COLUMNS == {"view_count", "topic", "channel", "prosocial", "risk"}

\* mutant: the column check finds nothing missing
MissingNone(cols) == {}

\* missing = REQUIRED_COLUMNS - set(df.columns)
Missing(cols) == REQUIRED_COLUMNS \ cols

\* A prosocial or risk cell of a loaded dataset is a number, NaN (a blank) or
\* a string [str |-> text].
IsStr(x) == DOMAIN x = {"str"}

\* what the float parser makes of a text: its number, NaN when it is none
ParseNumber(text) ==
    CASE text = "0.5" -> Half
      [] text = "2" -> R(2, 1)
      [] text = "-1" -> R(-1, 1)
      [] OTHER -> NaN

\* pd.to_numeric(..., errors="coerce"), for one cell
ToNumeric(x) == IF IsStr(x) THEN ParseNumber(x.str) ELSE x

\* .fillna(v), for one cell
FillNa(x, v) == IF x = NaN THEN v ELSE x

\* mutant: the optional clamp is left out
ClipSkipped(x, lo, hi) == x

\* .clip(lo, hi), for one cell
Clip(x, lo, hi) == IF FLess(x, lo) THEN lo ELSE IF FLess(hi, x) THEN hi ELSE x

\* the two statements applied to a column, for one cell
CleanCell(x) == Clip(FillNa(ToNumeric(x), Zero), Zero, One)

\* validate_and_clean(df) on the caller's dataset
ValidateAndClean ==
    /\ frames["df"].cols # {}
    /\ LET df == frames["df"]
       IN  IF Missing(df.cols) # {}
           THEN /\ prep_ret' = [fn |-> "validate_and_clean", arg |-> df,
                                raised |-> "ValueError", ret |-> EmptyFrame,
                                max_views |-> NaN]
                /\ frames' = frames
           ELSE IF ~({"prosocial", "risk"} \subseteq df.cols)
           THEN \* out = df.copy(); out["prosocial"] of a frame without it
                /\ prep_ret' = [fn |-> "validate_and_clean", arg |-> df,
                                raised |-> "KeyError", ret |-> EmptyFrame,
                                max_views |-> NaN]
                /\ frames' = [frames EXCEPT ![NewFrame("df", "out")] = df]
           ELSE \E out \in {[cols |-> df.cols,
                              rows |-> AsList([i \in 1..Len(df.rows) |->
                                         [df.rows[i] EXCEPT
                                             !.prosocial = CleanCell(@),
                                             !.risk = CleanCell(@)]])]} :
                    /\ prep_ret' = [fn |-> "validate_and_clean", arg |-> df,
                                    raised |-> "", ret |-> out,
                                    max_views |-> NaN]
                    /\ frames' = [frames EXCEPT ![NewFrame("df", "out")] = out]
    /\ prep_prev' = prep_ret
    /\ UNCHANGED <<df0, args, pc, remaining, feed_rows, recent_topics,
                   recent_channels, iter, pick_log, result, modeVars, webVars>>

\* out["view_count"].max(): the largest count, NaN for a pool without rows
SeriesMax(rows) ==
    IF Len(rows) = 0 THEN NaN
    ELSE LET counts == {rows[i].view_count : i \in 1..Len(rows)}
         IN  R(CHOOSE m \in counts : \A c \in counts : c <= m, 1)

\* mutant: the fallback divisor is kept for every pool
AlwaysOne(max_views) == One

\* if not max_views or max_views == 0: max_views = 1
\* (NaN is truthy and differs from 0, so it stays)
DivisorOrOne(max_views) == IF max_views = Zero THEN One ELSE max_views

\* mutant: the distance from the pool maximum is scaled instead of the count
EngagementInverted(view_count, max_views) ==
    RDiv(RSub(max_views, R(view_count, 1)), max_views)

\* out["view_count"] / max_views, for one row
Engagement(view_count, max_views) == RDiv(R(view_count, 1), max_views)

\* add_engagement(df) on the caller's pool
AddEngagement ==
    /\ frames["df"].cols # {}
    /\ LET df == frames["df"]
       IN  IF "view_count" \notin df.cols
           THEN /\ prep_ret' = [fn |-> "add_engagement", arg |-> df,
                                raised |-> "KeyError", ret |-> EmptyFrame,
                                max_views |-> NaN]
                /\ frames' = frames
           ELSE \E max_views \in {DivisorOrOne(SeriesMax(df.rows))} :
                \E out \in {[cols |-> df.cols \cup {"engagement"},
                              rows |-> AsList([i \in 1..Len(df.rows) |->
                                         [df.rows[i] EXCEPT !.engagement =
                                             Engagement(df.rows[i].view_count,
                                                        max_views)]])]} :
                    /\ prep_ret' = [fn |-> "add_engagement", arg |-> df,
                                    raised |-> "", ret |-> out,
                                    max_views |-> max_views]
                    /\ frames' = [frames EXCEPT ![NewFrame("df", "out")] = out]
    /\ prep_prev' = prep_ret
    /\ UNCHANGED <<df0, args, pc, remaining, feed_rows, recent_topics,
                   recent_channels, iter, pick_log, result, modeVars, webVars>>

\* the caller loads a dataset (read_csv) into the frame it will pass on
LoadFrame(frs) ==
    /\ frames["df"].cols = {}
    /\ \E fr \in frs :
           /\ frames' = [frames EXCEPT !["df"] = fr]
           /\ df0' = fr
    /\ UNCHANGED <<args, pc, remaining, feed_rows, recent_topics,
                   recent_channels, iter, pick_log, result, modeVars, prepVars, webVars>>

\* between two add_engagement calls the caller's data changes in one place:
\* candidate i's view count is raised to c, all else as it was
RaiseCount(counts) ==
    /\ prep_ret.fn = "add_engagement"
    /\ prep_ret.arg = frames["df"]
    /\ \E i \in 1..Len(frames["df"].rows), c \in counts :
           /\ c > frames["df"].rows[i].view_count
           /\ \E fr \in {[frames["df"] EXCEPT !.rows[i].view_count = c]} :
                  /\ frames' = [frames EXCEPT !["df"] = fr]
                  /\ df0' = fr
    /\ UNCHANGED <<args, pc, remaining, feed_rows, recent_topics,
                   recent_channels, iter, pick_log, result, modeVars, prepVars, webVars>>

\* mutant: ascending order, the default of sort_values
InOrderAscending(a, b) == ~FLess(b, a)

\* ascending=False: a may stand before b
InOrder(a, b) == ~FLess(a, b)

\* the orders of n rows
Orderings(n) == {q \in [1..n -> 1..n] : \A i, j \in 1..n : i # j => q[i] # q[j]}

\* df.sort_values("engagement", ascending=False): the default sort is not
\* stable, so rows of equal engagement may come out in any order
SortValues(rows) ==
    {AsList([i \in 1..Len(rows) |-> rows[q[i]]]) :
        q \in {o \in Orderings(Len(rows)) :
                  \A i \in 1..(Len(rows) - 1) :
                      InOrder(rows[o[i]].engagement, rows[o[i + 1]].engagement)}}

\* .head(k) for k >= 0: the first k rows, all of them when there are fewer
PyHead(rows, k) == SubSeq(rows, 1, IF k < Len(rows) THEN k ELSE Len(rows))

\* rank_baseline(df, k) on the caller's pool
RankBaseline(ks) ==
    /\ frames["df"].cols # {}
    /\ \E k \in ks :
       LET df == frames["df"]
       IN  IF "engagement" \notin df.cols
           THEN /\ prep_ret' = [fn |-> "rank_baseline", arg |-> [df |-> df, k |-> k],
                                raised |-> "KeyError", ret |-> EmptyFrame,
                                max_views |-> NaN]
                /\ frames' = frames
           ELSE \E sorted \in SortValues(df.rows) :
                \E out \in {[cols |-> df.cols, rows |-> PyHead(sorted, k)]} :
                    /\ prep_ret' = [fn |-> "rank_baseline",
                                    arg |-> [df |-> df, k |-> k], raised |-> "",
                                    ret |-> out, max_views |-> NaN]
                    /\ frames' = [frames EXCEPT ![NewFrame("df", "out")] = out]
    /\ prep_prev' = prep_ret
    /\ UNCHANGED <<df0, args, pc, remaining, feed_rows, recent_topics,
                   recent_channels, iter, pick_log, result, modeVars, webVars>>

\* the first ranking of a loaded pool
RankFirst(ks) ==
    /\ prep_ret.fn = "none"
    /\ RankBaseline(ks)

\* score_parts(e, d, p, r, w) called with one of the given argument tuples
ScoreParts(inputs) ==
    /\ \E a \in inputs :
           prep_ret' = [fn |-> "score_parts", arg |-> a, raised |-> "",
                        ret |-> score_parts(a.e, a.d, a.p, a.r, a.w),
                        max_views |-> NaN]
    /\ prep_prev' = prep_ret
    /\ UNCHANGED <<buildVars, modeVars, webVars>>

\* would_break_streak(recent_list, candidate_value, max_streak) is called on
\* its own, once
WouldBreakStreak(inputs) ==
    /\ prep_ret.fn = "none"
    /\ \E a \in inputs :
           prep_ret' = [fn |-> "would_break_streak", arg |-> a, raised |-> "",
                        ret |-> would_break_streak(a.recent_list,
                                    a.candidate_value, a.max_streak),
                        max_views |-> NaN]
    /\ prep_prev' = prep_ret
    /\ UNCHANGED <<buildVars, modeVars, webVars>>

\* the first scoring of a candidate
ScoreFirst(inputs) ==
    /\ prep_ret.fn = "none"
    /\ ScoreParts(inputs)

\* score_parts called again for the same candidate and weights, its risk
\* value alone replaced by a larger one
ScoreRiskier(risks) ==
    /\ prep_ret.fn = "score_parts"
    /\ ScoreParts({[prep_ret.arg EXCEPT !.r = r] :
                      r \in {x \in risks : FLess(prep_ret.arg.r, x)}})

-----------------------------------------------------------------------------
(* Inputs *)

Topics == {"A", "B"}

Channels == {"X", "Y"}

\* (engagement, prosocial, risk) of a candidate: popular and risky, or half
\* as popular and prosocial
Profiles ==
    {[engagement |-> One, prosocial |-> Zero, risk |-> One],
     [engagement |-> Half, prosocial |-> One, risk |-> Zero]}

RowTypes == [topic : Topics, channel : Channels, profile : Profiles]

MakeRow(i, t) ==
    [id |-> i, topic |-> t.topic, channel |-> t.channel,
     engagement |-> t.profile.engagement, prosocial |-> t.profile.prosocial,
     risk |-> t.profile.risk]

\* the candidate pools of n rows, identifiers unique. The builder compares
\* labels for equality only, so the first row's labels are fixed to ("A", "X")
PoolsOfSize(n) ==
    {[i \in 1..n |-> MakeRow(i, t[i])] :
        t \in {u \in [1..n -> RowTypes] :
                  n > 0 => u[1].topic = "A" /\ u[1].channel = "X"}}

Pools == UNION {PoolsOfSize(n) : n \in 0..MaxN}

DiversityOnly == [e |-> Zero, d |-> One, p |-> Zero, r |-> Zero]

WeightTuples == {WEIGHTS0["entertainment"], WEIGHTS0["baseline"], DiversityOnly}

\* recent_window: the default and the smallest
Windows == {1, 10}

\* max_streak: the default and the smallest
StreakCaps == {1, 2}

ArgSets ==
    [weights : WeightTuples, k : 0..MaxN, recent_window : Windows,
     max_streak : StreakCaps]

\* the columns of a dataset as loaded, before add_engagement
RawCols == {"id", "view_count", "topic", "channel", "prosocial", "risk"}

\* a dataset row; a cell of a column the frame does not have is NaN
RawRow(i, c, t, ch, p, r) ==
    [id |-> i, view_count |-> c, topic |-> t, channel |-> ch, prosocial |-> p,
     risk |-> r, engagement |-> NaN]

Counts == 0..MaxCount

\* datasets that differ in their view counts only
CountFrames ==
    UNION {{[cols |-> RawCols,
             rows |-> [i \in 1..n |-> RawRow(i, c[i], "A", "X", Zero, Zero)]] :
                c \in [1..n -> Counts]} : n \in 0..MaxN}

\* prosocial and risk cells as a dataset file can hold them: numbers below,
\* inside and above [0,1], a blank, a word and numerals as text
CellValues ==
    {R(-1, 1), Zero, Half, One, R(2, 1), NaN,
     [str |-> "abc"], [str |-> "0.5"], [str |-> "2"], [str |-> "-1"]}

\* datasets of one or two rows that differ in their prosocial and risk
\* cells; a second row holds the same value in both
CellFrames ==
    {[cols |-> RawCols, rows |-> <<RawRow(1, 1, "A", "X", p, r)>>] :
        p \in CellValues, r \in CellValues}
    \cup {[cols |-> RawCols,
           rows |-> <<RawRow(1, 1, "A", "X", p, r), RawRow(2, 2, "B", "X", c, c)>>] :
              p \in CellValues, r \in CellValues, c \in CellValues}

\* a column a frame does not have leaves its cells NaN
WithoutCols(fr, gone) ==
    [cols |-> fr.cols \ gone,
     rows |-> [i \in 1..Len(fr.rows) |->
                 [f \in DOMAIN fr.rows[i] |->
                     IF f \in gone THEN NaN ELSE fr.rows[i][f]]]]

\* datasets that lack any set of columns, required ones and the identifier
ColumnFrames ==
    {WithoutCols([cols |-> RawCols,
                  rows |-> <<RawRow(1, 3, "A", "X", R(2, 1), [str |-> "abc"]),
                             RawRow(2, 0, "B", "Y", NaN, Half)>>], gone) :
        gone \in (SUBSET RawCols) \ {RawCols}}

\* values of e, d, p and r
UnitValues == {Zero, Half, One}

\* the presets of the table, their night-mode variants and a tuple that
\* weights diversity alone
ScoreWeights ==
    {WEIGHTS0[preset] : preset \in DOMAIN WEIGHTS0}
        \cup {night_mode_settings(WEIGHTS0[preset], RISK_BOOST)[1] :
                  preset \in DOMAIN WEIGHTS0}
        \cup {DiversityOnly}

ScoreInputs ==
    [e : UnitValues, d : UnitValues, p : UnitValues, r : UnitValues,
     w : ScoreWeights]

\* histories of up to MaxN + 1 picks, a candidate value and a streak cap
StreakInputs ==
    [recent_list : UNION {[1..n -> Topics] : n \in 0..(MaxN + 1)},
     candidate_value : Topics,
     max_streak : 1..MaxN]

\* raw ids of a request: two videos, one of them also with a leading blank,
\* and a blank string
RawIds == {<<"a">>, <<" ", "a">>, <<"b">>, <<" ">>}

\* request payloads: video_ids a list of up to two raw ids, or not a list
Payloads ==
    [is_list : {TRUE}, raw_ids : UNION {[1..n -> RawIds] : n \in 0..2}]
        \cup {[is_list |-> FALSE, raw_ids |-> <<>>]}

\* creators of the worked examples: enough for all of a pool's to differ
\* from the two picked last
ExampleChannels == {"X", "Y", "Z"}

\* pools of three candidates of one topic, any creators (the first one's
\* label fixed) and any profiles
SameTopicPools ==
    {[i \in 1..3 |-> [id |-> i, topic |-> "A", channel |-> ch[i],
                       engagement |-> pf[i].engagement,
                       prosocial |-> pf[i].prosocial, risk |-> pf[i].risk]] :
        ch \in {c \in [1..3 -> ExampleChannels] : c[1] = "X"},
        pf \in [1..3 -> Profiles]}

\* pools of five candidates with topics A, A, B, B, C and engagements
\* 0.9, 0.8, 0.7, 0.6, 0.5, any creators (the first one's label fixed)
DescendingPools ==
    {[i \in 1..5 |-> [id |-> i, topic |-> <<"A", "A", "B", "B", "C">>[i],
                       channel |-> ch[i], engagement |-> R(10 - i, 10),
                       prosocial |-> pf.prosocial, risk |-> pf.risk]] :
        ch \in {c \in [1..5 -> ExampleChannels] : c[1] = "X"},
        pf \in Profiles}

\* weights (0,1,0,0), k = 3, W = 10, S = 2
SameTopicArgs ==
    [weights |-> DiversityOnly, k |-> 3, recent_window |-> 10, max_streak |-> 2]

\* weights (1,0,0,0), k = 5, W = 10, S = 2
DescendingArgs ==
    [weights |-> WEIGHTS0["baseline"], k |-> 5, recent_window |-> 10,
     max_streak |-> 2]

\* pools that differ in their engagement values, ties included
RankFrames ==
    UNION {{[cols |-> BaseCols,
             rows |-> [i \in 1..n |->
                         [id |-> i, topic |-> "A", channel |-> "X",
                          engagement |-> e[i], prosocial |-> Zero,
                          risk |-> Zero]]] :
                e \in [1..n -> UnitValues]} : n \in 0..MaxN}

\* the arguments of a run that was not called yet
NoArgs ==
    [weights |-> WEIGHTS0["entertainment"], k |-> 0, recent_window |-> 10,
     max_streak |-> 2]

InitBuilder ==
    /\ frames = [ref \in Refs |-> EmptyFrame]
    /\ df0 = EmptyFrame
    /\ args = [r \in Runs |-> NoArgs]
    /\ pc = [r \in Runs |-> "idle"]
    /\ remaining = [r \in Runs |-> Work(r)]
    /\ feed_rows = [r \in Runs |-> <<>>]
    /\ recent_topics = [r \in Runs |-> <<>>]
    /\ recent_channels = [r \in Runs |-> <<>>]
    /\ iter = [r \in Runs |-> 0]
    /\ pick_log = [r \in Runs |-> <<>>]
    /\ result = [r \in Runs |-> EmptyFrame]

InitMode ==
    /\ WEIGHTS = WEIGHTS0
    /\ mode_ret = NoCall
    /\ mode_prev = NoCall

InitPrep ==
    /\ prep_ret = NoPrep
    /\ prep_prev = NoPrep

InitWeb ==
    /\ EMBED_CACHE = EmptyDict
    /\ handler = [t \in Handlers |-> IdleHandler]
    /\ lookup_log = <<>>

Init == InitBuilder /\ InitMode /\ InitPrep /\ InitWeb

\* the steps of a build once it was called
Step(r) == Iterate(r) \/ Return(r)

\* one build of a feed from a pool
Next ==
    \/ LoadPool(Pools)
    \/ Call(1, ArgSets)
    \/ Step(1)

Spec == Init /\ [][Next]_vars

\* a build that was called runs to its end: Python executes it without
\* suspension
LiveArgSets == {a \in ArgSets : a.weights = WEIGHTS0["entertainment"]}

NextLive ==
    \/ LoadPool(Pools)
    \/ Call(1, LiveArgSets)
    \/ Step(1)

FairSpec == Init /\ [][NextLive]_vars /\ WF_vars(Step(1))

\* two builds of the same pool with the same arguments, their iterations
\* interleaved in any order
PairArgSets ==
    {a \in ArgSets : a.weights = WEIGHTS0["entertainment"] /\ a.k \in {1, MaxN}}

CallSame(r) ==
    Call(r, {a \in PairArgSets : \A q \in Runs \ {r} : pc[q] # "idle" => a = args[q]})

NextPair ==
    \/ LoadPool(Pools)
    \/ \E r \in Runs : CallSame(r)
    \/ \E r \in Runs : Step(r)

PairSpec == Init /\ [][NextPair]_vars

\* two independent builds of one pool: run 1 with the entertainment preset,
\* run 2 with diversity-only weights, windows and streak caps of their own
IndepArgSets(r) ==
    IF r = 1
    THEN {a \in ArgSets : a.weights = WEIGHTS0["entertainment"] /\ a.k = MaxN
                              /\ a.max_streak = 2}
    ELSE {a \in ArgSets : a.weights = DiversityOnly /\ a.k = MaxN
                              /\ a.recent_window = 10}

NextIndep ==
    \/ LoadPool(Pools)
    \/ \E r \in Runs : Call(r, IndepArgSets(r))
    \/ \E r \in Runs : Step(r)

IndepSpec == Init /\ [][NextIndep]_vars

\* the worked examples: one build of an example pool
NextExample ==
    \/ LoadPool(SameTopicPools \cup DescendingPools)
    \/ Call(1, {SameTopicArgs, DescendingArgs})
    \/ Step(1)

ExampleSpec == Init /\ [][NextExample]_vars

\* rank_baseline on a loaded pool, for k up to one more than the pool can hold
NextRank ==
    \/ LoadFrame(RankFrames)
    \/ RankFirst(0..(MaxN + 1))

RankSpec == Init /\ [][NextRank]_vars

\* calls of the Mode Resolver
NextMode ==
    \/ \E preset \in PresetNames, night_mode \in BOOLEAN, k_default \in KDefaults :
           GetModeSettings(preset, night_mode, k_default)
    \/ \E preset \in PresetNames : NightModeSettings(preset)

ModeSpec == Init /\ [][NextMode]_vars

\* add_engagement on a dataset, and again after one view count was raised
NextEng ==
    \/ LoadFrame(CountFrames)
    \/ AddEngagement
    \/ RaiseCount(Counts)

EngSpec == Init /\ [][NextEng]_vars

\* validate_and_clean on a loaded dataset
NextClean ==
    \/ LoadFrame(CellFrames \cup ColumnFrames)
    \/ ValidateAndClean

CleanSpec == Init /\ [][NextClean]_vars

\* score_parts on a candidate, and again with a larger risk value
NextScore ==
    \/ ScoreFirst(ScoreInputs)
    \/ ScoreRiskier(UnitValues)

ScoreSpec == Init /\ [][NextScore]_vars

\* server.serve_forever(): requests are handled in concurrent threads
NextWeb ==
    \E t \in Handlers :
        \/ Receive(t, Payloads)
        \/ CheckCache(t)
        \/ Lookup(t)
        \/ Store(t)
        \/ Respond(t)

WebSpec == Init /\ [][NextWeb]_vars

\* the Repetition Guard called on its own
NextStreak == WouldBreakStreak(StreakInputs)

StreakSpec == Init /\ [][NextStreak]_vars

-----------------------------------------------------------------------------
(* Properties *)

Min(a, b) == IF a < b THEN a ELSE b

Active == {r \in Runs : pc[r] # "idle"}

Finished == {r \in Runs : pc[r] = "done"}

\* C1: a build of a pool of n rows with k >= 0 returns exactly min(k, n)
\* entries, an empty pool gives an empty feed, and no build ends in an error.
C1_FeedLength ==
    \A r \in Runs :
        /\ pc[r] # "raised"
        /\ pc[r] = "done" =>
               /\ Len(result[r].rows) = Min(args[r].k, Len(df0.rows))
               /\ (Len(df0.rows) = 0 => result[r] = EmptyFrame)

\* a build that stopped at k with candidates left over
C1_Witness ==
    \E r \in Finished :
        /\ args[r].k >= 1
        /\ args[r].k < Len(df0.rows)
        /\ Len(result[r].rows) = args[r].k

\* C2: every iteration started with a non-empty pool and fewer than k picks
\* adds exactly one pick (also when every candidate is flagged), and every
\* build reaches its end.
C2_NeverStalls ==
    /\ [][\A r \in Runs :
             iter'[r] # iter[r] =>
                 /\ pc'[r] = "loop"
                 /\ Len(feed_rows'[r]) = Len(feed_rows[r]) + 1
                 /\ Len(frames'[remaining'[r]].rows)
                        = Len(frames[remaining[r]].rows) - 1]_vars
    /\ (pc[1] = "loop") ~> (pc[1] = "done")

\* a finished build that went through an iteration with every candidate flagged
C2_Witness ==
    \E r \in Finished :
        /\ Len(result[r].rows) = Min(args[r].k, Len(df0.rows))
        /\ \E i \in 1..Len(pick_log[r]) :
               pick_log[r][i].relaxed /\ pick_log[r][i].unflagged = {}

\* C3: no identifier appears twice in a feed.
C3_NoDuplicates ==
    \A r \in Runs :
        /\ \A i, j \in 1..Len(feed_rows[r]) :
               i # j => feed_rows[r][i].id # feed_rows[r][j].id
        /\ \A i, j \in 1..Len(result[r].rows) :
               i # j => result[r].rows[i].id # result[r].rows[j].id

\* a returned feed that holds the whole pool, of the largest size
C3_Witness ==
    \E r \in Finished :
        /\ Len(result[r].rows) = MaxN
        /\ {result[r].rows[i].id : i \in 1..MaxN} = 1..MaxN

\* the feed entries of run r from position i - n to i - 1 all have the
\* topic of entry i, or all have its channel (n >= 1 entries before i)
RunBefore(r, i, n) ==
    /\ i > n
    /\ \/ \A j \in (i - n)..(i - 1) : feed_rows[r][j].topic = feed_rows[r][i].topic
       \/ \A j \in (i - n)..(i - 1) : feed_rows[r][j].channel = feed_rows[r][i].channel

\* C4 as stated: no run of identical topics, and none of identical channels,
\* is longer than S + 1.
C4_RunsAtMostSPlus1 ==
    \A r \in Runs :
        \A i \in 1..Len(feed_rows[r]) : ~RunBefore(r, i, args[r].max_streak + 1)

\* C4 amended: a run of identical topics or channels grows beyond S only
\* through picks made with the streak rule relaxed, that is in iterations
\* where every remaining candidate was blocked; relaxation can fire in
\* several iterations of one build, so S + 1 does not bound a run.
C4_RunsGrowOnlyByRelaxation ==
    \A r \in Runs :
        \A i \in 1..Len(feed_rows[r]) :
            RunBefore(r, i, args[r].max_streak) =>
                /\ pick_log[r][i].relaxed
                /\ pick_log[r][i].unflagged = {}

\* a feed with a run of S + 1, its last entry picked under relaxation
C4_Witness ==
    \E r \in Runs :
        \E i \in 1..Len(feed_rows[r]) :
            /\ RunBefore(r, i, args[r].max_streak)
            /\ pick_log[r][i].relaxed
            /\ args[r].max_streak = 2

\* the positions of the feed whose candidate was flagged when it was picked
FlaggedPicks(r) == {i \in 1..Len(pick_log[r]) : pick_log[r][i].flagged}

\* C5 as stated: at most one feed entry was flagged by the Repetition Guard
\* in the iteration that picked it.
C5_AtMostOneException ==
    \A r \in Runs : Cardinality(FlaggedPicks(r)) <= 1

\* C5 amended: each iteration picks at most one flagged candidate and only
\* with the rule relaxed; none of the first S picks is flagged, so a feed of
\* n entries holds at most max(0, n - S) flagged picks, which can be more
\* than one.
C5_ExceptionsOnlyAfterS ==
    \A r \in Runs :
        /\ Len(pick_log[r]) = Len(feed_rows[r])
        /\ \A i \in FlaggedPicks(r) : i > args[r].max_streak /\ pick_log[r][i].relaxed
        /\ Cardinality(FlaggedPicks(r)) <= Len(feed_rows[r]) - Min(Len(feed_rows[r]), args[r].max_streak)

\* a feed with two flagged picks
C5_Witness ==
    \E r \in Runs : Cardinality(FlaggedPicks(r)) = 2

C7_DiversityRange ==
    \A r \in Runs :
        \A i \in 1..Len(feed_rows[r]) :
            LET row == feed_rows[r][i]
                W == args[r].recent_window
                before == {j \in 1..(i - 1) : j >= i - W}
                topic_new == \A j \in before : feed_rows[r][j].topic # row.topic
                channel_new == \A j \in before : feed_rows[r][j].channel # row.channel
            IN  /\ row.diversity \in {Zero, Half, One}
                /\ row.diversity = Zero <=> ~topic_new /\ ~channel_new
                /\ row.diversity = One <=> topic_new /\ channel_new

\* a feed that carries all three diversity values
C7_Witness ==
    \E r \in Runs :
        {feed_rows[r][i].diversity : i \in 1..Len(feed_rows[r])} = {Zero, Half, One}

\* C8: the caller's pool is never changed by a build: same rows, same order,
\* same columns.
C8_InputUnchanged ==
    Active # {} => frames["df"] = df0

\* a build returned a feed of two or more picks and the pool is as it was
C8_Witness ==
    \E r \in Finished :
        /\ Len(result[r].rows) >= 2
        /\ frames["df"] = df0
        /\ frames["df"].cols = BaseCols

\* C9: get_mode_settings with a preset that is not in the table raises the
\* unknown-preset error for either night-mode value and every k_default,
\* returns nothing, applies no weight transform and leaves the table as it was.
C9_UnknownPresetFails ==
    (mode_ret.fn = "get_mode_settings" /\ mode_ret.preset \notin DOMAIN WEIGHTS0) =>
        /\ mode_ret.raised = "KeyError"
        /\ mode_ret.ret = <<>>
        /\ ~mode_ret.transformed
        /\ WEIGHTS = WEIGHTS0

\* a night-mode call with an unknown preset has failed
C9_Witness ==
    /\ mode_ret.fn = "get_mode_settings"
    /\ mode_ret.preset \in UnknownPresets
    /\ mode_ret.night_mode
    /\ mode_ret.raised = "KeyError"

\* C10: for every preset of the table the night-mode weights sum to 1 and
\* are in the proportions of (w_e, w_d, w_p, w_r + 0.05).
C10_NightWeightsNormalised ==
    mode_ret.transformed =>
        LET w == mode_ret.ret[1]
            base == WEIGHTS0[mode_ret.preset]
            boosted == [base EXCEPT !["r"] = RAdd(@, R(1, 20))]
        IN  /\ mode_ret.preset \in DOMAIN WEIGHTS0
            /\ DOMAIN w = Keys
            /\ SumValues(w) = One
            /\ \A a, b \in Keys :
                   w[a].n * w[b].d * boosted[b].n * boosted[a].d
                       = w[b].n * w[a].d * boosted[a].n * boosted[b].d
            /\ w["r"].n > 0

\* night mode resolved for the preset whose risk weight is 0
C10_Witness ==
    /\ mode_ret.fn = "get_mode_settings"
    /\ mode_ret.transformed
    /\ mode_ret.preset = "baseline"
    /\ mode_ret.ret[1]["r"] = R(1, 21)

\* C11: for every preset and every k_default, get_mode_settings with night
\* mode on returns 15 as k, and that k is smaller than the k the same call
\* returns with night mode off. Stated over a night-off call followed by the
\* night-on call with the same preset and k_default.
C11_NightShortensFeed ==
    (/\ mode_prev.fn = "get_mode_settings" /\ mode_ret.fn = "get_mode_settings"
     /\ mode_prev.raised = "" /\ mode_ret.raised = ""
     /\ ~mode_prev.night_mode /\ mode_ret.night_mode
     /\ mode_prev.preset = mode_ret.preset
     /\ mode_prev.k_default = mode_ret.k_default) =>
        /\ mode_ret.ret[2] = 15
        /\ mode_ret.ret[2] < mode_prev.ret[2]

\* the largest view count of a frame's rows, 0 for no rows
PoolMax(fr) ==
    LET counts == {fr.rows[i].view_count : i \in 1..Len(fr.rows)} \cup {0}
    IN  CHOOSE m \in counts : \A c \in counts : c <= m

\* the last two calls were add_engagement on pools that differ in row i only,
\* whose count is larger in the later call
RaisedAt(i) ==
    /\ prep_prev.fn = "add_engagement" /\ prep_ret.fn = "add_engagement"
    /\ prep_prev.raised = "" /\ prep_ret.raised = ""
    /\ Len(prep_prev.arg.rows) = Len(prep_ret.arg.rows)
    /\ i \in 1..Len(prep_ret.arg.rows)
    /\ prep_ret.arg.rows[i].view_count > prep_prev.arg.rows[i].view_count
    /\ \A j \in 1..Len(prep_ret.arg.rows) :
           j # i => prep_ret.arg.rows[j] = prep_prev.arg.rows[j]

\* C12: raising one candidate's view count while all other counts stay fixed
\* never lowers that candidate's engagement as add_engagement computes it.
C12_EngagementMonotone ==
    \A i \in 1..MaxN :
        RaisedAt(i) =>
            ~FLess(prep_ret.ret.rows[i].engagement, prep_prev.ret.rows[i].engagement)

\* a candidate below the pool maximum was raised to become the maximum, in a
\* pool with another candidate
C12_Witness ==
    \E i \in 1..MaxN :
        /\ RaisedAt(i)
        /\ Len(prep_ret.arg.rows) >= 2
        /\ prep_prev.ret.rows[i].engagement = Half
        /\ prep_ret.ret.rows[i].engagement = One
        /\ \E j \in 1..Len(prep_ret.ret.rows) :
               j # i /\ prep_ret.ret.rows[j].engagement = Half

\* C13: add_engagement gives each candidate engagement = count / pool
\* maximum, in [0,1], the maximum candidate exactly 1; when the pool maximum
\* is 0 the divisor is 1 and every engagement is 0.
C13_EngagementScaled ==
    prep_ret.fn = "add_engagement" =>
        LET m == PoolMax(prep_ret.arg)
            out == prep_ret.ret.rows
        IN  /\ prep_ret.raised = ""
            /\ "engagement" \in prep_ret.ret.cols
            /\ Len(out) = Len(prep_ret.arg.rows)
            /\ \A i \in 1..Len(out) :
                   LET e == out[i].engagement
                       c == prep_ret.arg.rows[i].view_count
                   IN  /\ e.d > 0
                       /\ 0 <= e.n /\ e.n <= e.d
                       /\ IF m = 0
                          THEN e = Zero /\ prep_ret.max_views = One
                          ELSE /\ e.n * m = c * e.d
                               /\ prep_ret.max_views = [n |-> m, d |-> 1]
                               /\ c = m => e = One

\* a pool whose maximum is above 1, with a candidate at half of it
C13_Witness ==
    /\ prep_ret.fn = "add_engagement"
    /\ PoolMax(prep_ret.arg) > 1
    /\ \E i \in 1..Len(prep_ret.ret.rows) : prep_ret.ret.rows[i].engagement = Half
    /\ \E i \in 1..Len(prep_ret.ret.rows) : prep_ret.ret.rows[i].engagement = One

\* the last two calls were score_parts with the same e, d, p and weights and
\* a larger risk in the later call
RiskRaised ==
    /\ prep_prev.fn = "score_parts" /\ prep_ret.fn = "score_parts"
    /\ prep_prev.arg.e = prep_ret.arg.e
    /\ prep_prev.arg.d = prep_ret.arg.d
    /\ prep_prev.arg.p = prep_ret.arg.p
    /\ prep_prev.arg.w = prep_ret.arg.w
    /\ FLess(prep_prev.arg.r, prep_ret.arg.r)

\* C14 as stated: for every weight tuple the builder accepts, each preset of
\* the table included, and fixed e, d, p, a larger risk value gives a strictly
\* smaller score.
C14_StrictlyDecreasingInRisk ==
    RiskRaised => FLess(prep_ret.ret, prep_prev.ret)

\* C14 as amended: with fixed e, d, p a larger risk value never gives a
\* larger score; the score is strictly smaller when the risk weight is
\* positive and the same when the risk weight is 0, as in the baseline preset.
C14_DecreasingWhenRiskWeighted ==
    RiskRaised =>
        /\ ~FLess(prep_prev.ret, prep_ret.ret)
        /\ prep_ret.arg.w["r"].n > 0 => FLess(prep_ret.ret, prep_prev.ret)
        /\ prep_ret.arg.w["r"].n = 0 => prep_ret.ret = prep_prev.ret

\* the entertainment preset scored a candidate at risk 0 and then at risk 1:
\* the score fell by the risk weight
C14_Witness ==
    /\ RiskRaised
    /\ prep_ret.arg.w = WEIGHTS0["entertainment"]
    /\ prep_prev.arg.r = Zero /\ prep_ret.arg.r = One
    /\ RSub(prep_prev.ret, prep_ret.ret) = R(1, 10)

\* the value a cleaned cell must have for the cell x it came from
Cleaned(x, y) ==
    LET num == IF x = [str |-> "0.5"] THEN Half
               ELSE IF x = [str |-> "2"] THEN [n |-> 2, d |-> 1]
               ELSE IF x = [str |-> "-1"] THEN [n |-> -1, d |-> 1]
               ELSE x
    IN  /\ DOMAIN y = {"n", "d"} /\ y.d > 0
        /\ 0 <= y.n /\ y.n <= y.d
        /\ IF DOMAIN num # {"n", "d"} \/ num.d = 0 THEN y = Zero
           ELSE IF num.n < 0 THEN y = Zero
           ELSE IF num.n > num.d THEN y = One
           ELSE y = num

\* C15: validate_and_clean on a pool that lacks a required column raises the
\* validation error before any cleaning, returns no pool and leaves the input
\* pool unchanged.
C15_MissingColumnsFailFast ==
    (/\ prep_ret.fn = "validate_and_clean"
     /\ ~({"view_count", "topic", "channel", "prosocial", "risk"}
              \subseteq prep_ret.arg.cols)) =>
        /\ prep_ret.raised = "ValueError"
        /\ prep_ret.ret = EmptyFrame
        /\ frames["out"] = EmptyFrame
        /\ frames["df"] = prep_ret.arg
        /\ frames["df"] = df0

\* a pool that has prosocial and risk but lacks the topic column was refused
C15_Witness ==
    /\ prep_ret.fn = "validate_and_clean"
    /\ prep_ret.arg.cols = RawCols \ {"topic"}
    /\ prep_ret.raised = "ValueError"

\* C16: after validate_and_clean every prosocial and risk value is a number
\* in [0,1]: below 0 becomes 0, above 1 becomes 1, inside [0,1] is kept,
\* non-numeric or missing becomes 0; no other field of the pool changes.
C16_CleanedIntoUnitRange ==
    (prep_ret.fn = "validate_and_clean" /\ prep_ret.raised = "") =>
        LET in == prep_ret.arg
            out == prep_ret.ret
        IN  /\ out.cols = in.cols
            /\ Len(out.rows) = Len(in.rows)
            /\ \A i \in 1..Len(out.rows) :
                   /\ Cleaned(in.rows[i].prosocial, out.rows[i].prosocial)
                   /\ Cleaned(in.rows[i].risk, out.rows[i].risk)
                   /\ \A f \in DOMAIN in.rows[i] \ {"prosocial", "risk"} :
                          out.rows[i][f] = in.rows[i][f]

\* a pool was cleaned whose first row had prosocial 2 and a word as risk and
\* whose second row had blanks
C16_Witness ==
    /\ prep_ret.fn = "validate_and_clean" /\ prep_ret.raised = ""
    /\ Len(prep_ret.arg.rows) = 2
    /\ prep_ret.arg.rows[1].prosocial = R(2, 1)
    /\ prep_ret.arg.rows[1].risk = [str |-> "abc"]
    /\ prep_ret.arg.rows[2].prosocial = NaN
    /\ prep_ret.ret.rows[1].prosocial = One
    /\ prep_ret.ret.rows[1].risk = Zero
    /\ prep_ret.ret.rows[2].prosocial = Zero

\* the feed a build returns when nothing else runs: the loop of
\* build_prototype_feed as a function of the pool, the history lists, the
\* arguments and the count of iterations made
RECURSIVE SoloFeed(_, _, _, _, _)
SoloFeed(rows, topics, channels, a, i) ==
    IF i >= a.k \/ Len(rows) = 0 THEN <<>>
    ELSE LET strict == StrictEntries(rows, topics, channels, a.weights,
                                     a.recent_window, a.max_streak)
             entries == IF AllBlocked(strict)
                        THEN RelaxedEntries(rows, topics, channels, a.weights,
                                            a.recent_window)
                        ELSE strict
             best == IdxMax(entries)
             row == Annotate(rows[best], entries[best].diversity, entries[best].score)
         IN  <<row>> \o SoloFeed(DropRow(rows, best), Append(topics, row.topic),
                                 Append(channels, row.channel), a, i + 1)

\* C17: when the iterations of two builds are interleaved in any order, each
\* build returns exactly the feed it returns when run alone, the caller's pool
\* is as it was passed and the preset table is unchanged.
C17_InterleavedRunsIndependent ==
    /\ \A r \in Runs :
           pc[r] = "done" => result[r].rows = SoloFeed(df0.rows, <<>>, <<>>, args[r], 0)
    /\ Active # {} => frames["df"] = df0
    /\ WEIGHTS = WEIGHTS0

\* both builds of a pool of MaxN candidates are done, and their feeds differ:
\* each followed its own weights
C17_Witness ==
    /\ \A r \in Runs : pc[r] = "done" /\ Len(result[r].rows) = MaxN
    /\ args[1] # args[2]
    /\ \E i \in 1..MaxN : result[1].rows[i].id # result[2].rows[i].id

\* run 1 has finished the diversity-only example: three candidates of one
\* topic, weights (0,1,0,0), S = 2, W = 10, k = 3
SameTopicDone ==
    /\ pc[1] = "done"
    /\ args[1] = [weights |-> [e |-> Zero, d |-> One, p |-> Zero, r |-> Zero],
                  k |-> 3, recent_window |-> 10, max_streak |-> 2]
    /\ Len(df0.rows) = 3
    /\ \A i \in 1..3 : df0.rows[i].topic = df0.rows[1].topic

\* the number of distinct creators in the caller's pool
Creators == Cardinality({df0.rows[i].channel : i \in 1..Len(df0.rows)})

\* C18 as stated: whatever the creators, picks 1 and 2 are made without
\* relaxation with diversity 1.0 and then 0.5, pick 3 is blocked so relaxation
\* fires, and the third entry is emitted with diversity 0.0.
C18_SameTopicExample ==
    SameTopicDone =>
        /\ Len(result[1].rows) = 3
        /\ ~pick_log[1][1].relaxed /\ result[1].rows[1].diversity = One
        /\ ~pick_log[1][2].relaxed /\ result[1].rows[2].diversity = Half
        /\ pick_log[1][3].relaxed /\ pick_log[1][3].flagged
        /\ result[1].rows[3].diversity = Zero

\* C18 as amended: picks 1 and 2 are made without relaxation, pick 3 is
\* blocked and made by relaxation; the diversities are 1.0, 0.5, 0.0 when the
\* pool has two creators, 1.0, 0.0, 0.0 when it has one and 1.0, 0.5, 0.5
\* when it has three.
C18_SameTopicExampleByCreators ==
    SameTopicDone =>
        /\ Len(result[1].rows) = 3
        /\ ~pick_log[1][1].relaxed /\ result[1].rows[1].diversity = One
        /\ ~pick_log[1][2].relaxed
        /\ pick_log[1][3].relaxed /\ pick_log[1][3].flagged
        /\ result[1].rows[2].diversity = (IF Creators = 1 THEN Zero ELSE Half)
        /\ result[1].rows[3].diversity = (IF Creators = 3 THEN Half ELSE Zero)

\* the example ran on a pool with two creators and gave 1.0, 0.5, 0.0
C18_Witness ==
    /\ SameTopicDone
    /\ Creators = 2
    /\ result[1].rows[1].diversity = One
    /\ result[1].rows[2].diversity = Half
    /\ result[1].rows[3].diversity = Zero
    /\ pick_log[1][3].relaxed

\* run 1 has finished the engagement-only example: five candidates with
\* topics A, A, B, B, C and engagements 0.9 .. 0.5, weights (1,0,0,0), S = 2,
\* W = 10, k = 5
DescendingDone ==
    /\ pc[1] = "done"
    /\ args[1] = [weights |-> [e |-> One, d |-> Zero, p |-> Zero, r |-> Zero],
                  k |-> 5, recent_window |-> 10, max_streak |-> 2]
    /\ Len(df0.rows) = 5
    /\ [i \in 1..5 |-> df0.rows[i].topic] = <<"A", "A", "B", "B", "C">>
    /\ [i \in 1..5 |-> df0.rows[i].engagement]
           = <<[n |-> 9, d |-> 10], [n |-> 4, d |-> 5], [n |-> 7, d |-> 10],
               [n |-> 3, d |-> 5], [n |-> 1, d |-> 2]>>

\* the feed is the caller's pool in its order
FeedInInputOrder ==
    /\ Len(result[1].rows) = Len(df0.rows)
    /\ \A i \in 1..Len(df0.rows) : result[1].rows[i].id = df0.rows[i].id

\* candidates i-2, i-1 and i of the caller's pool have one creator and a
\* later candidate has another
CreatorRunCutsIn(i) ==
    /\ df0.rows[i].channel = df0.rows[i - 1].channel
    /\ df0.rows[i].channel = df0.rows[i - 2].channel
    /\ \E j \in (i + 1)..Len(df0.rows) : df0.rows[j].channel # df0.rows[i].channel

\* C19 as stated: whatever the creators, the picks follow descending
\* engagement and the feed is the input in its input order.
C19_DescendingExample ==
    DescendingDone => FeedInInputOrder

\* C19 as amended: the feed is the input in its input order exactly when no
\* three candidates in a row share a creator while a later candidate has
\* another creator; in particular when no creator occurs three times in a row.
C19_DescendingExampleByCreators ==
    DescendingDone =>
        (FeedInInputOrder <=> ~\E i \in 3..5 : CreatorRunCutsIn(i))

\* the example ran on a pool whose creators alternate and returned it in its
\* order, all five picks without relaxation
C19_Witness ==
    /\ DescendingDone
    /\ FeedInInputOrder
    /\ [i \in 1..5 |-> df0.rows[i].channel] = <<"X", "Y", "X", "Y", "Z">>
    /\ \A i \in 1..5 : ~pick_log[1][i].relaxed

\* C20: rank_baseline returns min(k, n) rows of the pool in non-increasing
\* engagement order, every row left out has engagement no greater than every
\* row returned, and the input pool is unchanged.
C20_BaselineTopK ==
    prep_ret.fn = "rank_baseline" =>
        LET in == prep_ret.arg.df.rows
            k == prep_ret.arg.k
            out == prep_ret.ret.rows
            kept == {out[i].id : i \in 1..Len(out)}
        IN  /\ prep_ret.raised = ""
            /\ Len(out) = Min(k, Len(in))
            /\ Cardinality(kept) = Len(out)
            /\ \A i \in 1..Len(out) : \E j \in 1..Len(in) : out[i] = in[j]
            /\ \A i \in 1..(Len(out) - 1) :
                   ~FLess(out[i].engagement, out[i + 1].engagement)
            /\ \A j \in 1..Len(in) : \A i \in 1..Len(out) :
                   in[j].id \notin kept => ~FLess(out[i].engagement, in[j].engagement)
            /\ frames["df"] = prep_ret.arg.df
            /\ frames["df"] = df0

\* a pool of three with a tie below the top was cut to its two best rows:
\* the top row came last in the input
C20_Witness ==
    /\ prep_ret.fn = "rank_baseline"
    /\ prep_ret.arg.k = 2
    /\ Len(prep_ret.arg.df.rows) = 3
    /\ prep_ret.arg.df.rows[1].engagement = Half
    /\ prep_ret.arg.df.rows[2].engagement = Half
    /\ prep_ret.arg.df.rows[3].engagement = One
    /\ Len(prep_ret.ret.rows) = 2
    /\ prep_ret.ret.rows[1].id = 3

\* the candidates still in the pool of run r when pick i is made: the input
\* rows not among the first i - 1 feed entries
PoolAt(r, i) ==
    {df0.rows[j] : j \in {j \in 1..Len(df0.rows) :
        \A h \in 1..(i - 1) : feed_rows[r][h].id # df0.rows[j].id}}

\* the Repetition Guard flags row at pick i of run r: the S feed entries
\* before position i all have its topic, or all have its channel
FlaggedAt(r, row, i) ==
    LET S == args[r].max_streak
    IN  /\ i > S
        /\ \/ \A j \in (i - S)..(i - 1) : feed_rows[r][j].topic = row.topic
           \/ \A j \in (i - S)..(i - 1) : feed_rows[r][j].channel = row.channel

\* C21: in every iteration a flagged candidate is picked only if every
\* candidate remaining in the pool is flagged in that iteration, and the
\* streak rule is relaxed exactly in those iterations; so whenever one
\* remaining candidate is unflagged the pick is unflagged, also in the
\* iteration right after a relaxed pick.
C21_RelaxOnlyWhenAllFlagged ==
    \A r \in Runs :
        \A i \in 1..Len(feed_rows[r]) :
            LET allFlagged == \A row \in PoolAt(r, i) : FlaggedAt(r, row, i)
            IN  /\ FlaggedAt(r, feed_rows[r][i], i) => allFlagged
                /\ pick_log[r][i].relaxed <=> allFlagged

\* a relaxed pick followed by an iteration that enforced the rule again:
\* its pick is unflagged and made without relaxation
C21_Witness ==
    \E r \in Runs :
        \E i \in 1..(Len(feed_rows[r]) - 1) :
            /\ pick_log[r][i].relaxed
            /\ FlaggedAt(r, feed_rows[r][i], i)
            /\ ~pick_log[r][i + 1].relaxed
            /\ ~FlaggedAt(r, feed_rows[r][i + 1], i + 1)

\* the position of the candidate with this id in the input pool
Pos(id) == CHOOSE j \in 1..Len(df0.rows) : df0.rows[j].id = id

\* the Diversity Scorer on the (at most W) feed entries of run r before
\* position i: a half for a topic none of them has, a half for a creator
DiversityAt(r, row, i) ==
    LET W == args[r].recent_window
        window == {j \in 1..(i - 1) : j >= i - W}
        topic_new == IF \A j \in window : feed_rows[r][j].topic # row.topic
                     THEN 1 ELSE 0
        channel_new == IF \A j \in window : feed_rows[r][j].channel # row.channel
                       THEN 1 ELSE 0
    IN  R(topic_new + channel_new, 2)

\* e*w_e + d*w_d + p*w_p - r*w_r with the diversity of pick i
ScoreAt(r, row, i) ==
    LET w == args[r].weights
    IN  RSub(RAdd(RAdd(RMul(row.engagement, w["e"]),
                       RMul(DiversityAt(r, row, i), w["d"])),
                  RMul(row.prosocial, w["p"])),
             RMul(row.risk, w["r"]))

\* the candidates pick i of run r chooses among: the unflagged ones, or the
\* whole pool when every candidate is flagged
EligibleAt(r, i) ==
    IF \A row \in PoolAt(r, i) : FlaggedAt(r, row, i)
    THEN PoolAt(r, i)
    ELSE {row \in PoolAt(r, i) : ~FlaggedAt(r, row, i)}

\* C22: in every iteration the pick has the maximum score among the
\* candidates eligible in that iteration, among the eligible candidates
\* tied at that maximum it is the first in the pool's order, and the pool's
\* order is the input order with the picked rows removed. Stated of the
\* latest pick of every state, that is of every pick when it is made.
C22_PickIsFirstMaximum ==
    \A r \in Runs :
        /\ feed_rows[r] # <<>> =>
               \A i \in {Len(feed_rows[r])} :
               \A eligible \in {EligibleAt(r, i)} :
               \A best \in {ScoreAt(r, feed_rows[r][i], i)} :
                   /\ \E row \in eligible : row.id = feed_rows[r][i].id
                   /\ \A row \in eligible :
                      \A score \in {ScoreAt(r, row, i)} :
                          /\ ~FLess(best, score)
                          /\ score = best => Pos(feed_rows[r][i].id) <= Pos(row.id)
        /\ pc[r] \in {"loop", "done"} =>
               LET rows == frames[remaining[r]].rows
               IN  /\ {rows[a].id : a \in 1..Len(rows)}
                          = {row.id : row \in PoolAt(r, Len(feed_rows[r]) + 1)}
                   /\ \A a, b \in 1..Len(rows) :
                          a < b => Pos(rows[a].id) < Pos(rows[b].id)

\* a pick made where another eligible candidate had the same score and a
\* later place, after an earlier pick had left a gap in the pool before it
C22_Witness ==
    \E r \in Runs :
        \E i \in 2..Len(feed_rows[r]) :
            LET pick == feed_rows[r][i]
            IN  /\ \E row \in EligibleAt(r, i) :
                       /\ row.id # pick.id
                       /\ ScoreAt(r, row, i) = ScoreAt(r, pick, i)
                /\ Pos(feed_rows[r][1].id) < Pos(pick.id)

\* C23: every feed entry carries the diversity and the score of the
\* iteration that picked it: the Diversity Scorer on the (at most W) picks
\* right before it, and e*w_e + d*w_d + p*w_p - r*w_r with that diversity;
\* also for relaxed picks, so no entry carries the score -inf.
C23_EntriesCarryTheirScore ==
    \A r \in Runs :
        /\ \A i \in 1..Len(feed_rows[r]) :
               LET row == feed_rows[r][i]
               IN  /\ row.diversity = DiversityAt(r, row, i)
                   /\ row.score = ScoreAt(r, row, i)
                   /\ row.score # NegInf
        /\ pc[r] = "done" => result[r].rows = feed_rows[r]

\* a returned feed whose third entry was a relaxed pick with W = 1: its
\* topic is the first entry's, outside the window, and counts as new
C23_Witness ==
    \E r \in Finished :
        /\ args[r].recent_window = 1
        /\ Len(result[r].rows) = 3
        /\ pick_log[r][3].relaxed
        /\ result[r].rows[1].topic = result[r].rows[3].topic
        /\ result[r].rows[2].topic # result[r].rows[3].topic
        /\ result[r].rows[3].diversity = Half

\* C24: would_break_streak returns true iff the history has at least S
\* entries and its last S entries all equal the candidate's value (S >= 1);
\* with fewer than S entries it returns false.
C24_StreakIffLastSEqual ==
    prep_ret.fn = "would_break_streak" =>
        LET h == prep_ret.arg.recent_list
            c == prep_ret.arg.candidate_value
            S == prep_ret.arg.max_streak
        IN  /\ prep_ret.ret = TRUE <=>
                   /\ Len(h) >= S
                   /\ \A j \in (Len(h) - S + 1)..Len(h) : h[j] = c
            /\ Len(h) < S => prep_ret.ret = FALSE

\* a history shorter than S whose entries all equal the candidate's value:
\* the call returned false
C24_Witness ==
    /\ prep_ret.fn = "would_break_streak"
    /\ prep_ret.arg.recent_list = <<"A", "A">>
    /\ prep_ret.arg.candidate_value = "A"
    /\ prep_ret.arg.max_streak = 3
    /\ prep_ret.ret = FALSE

\* C25: the candidates an iteration blocks are those whose topic equals the
\* last S topics of the full pick history, or whose creator equals its last
\* S creators, whatever the window W (also W < S); and the topic and creator
\* histories hold one entry per pick, in pick order.
C25_BlockingIgnoresWindow ==
    \A r \in Runs :
        /\ Len(pick_log[r]) = Len(feed_rows[r])
        /\ recent_topics[r]
               = [i \in 1..Len(feed_rows[r]) |-> feed_rows[r][i].topic]
        /\ recent_channels[r]
               = [i \in 1..Len(feed_rows[r]) |-> feed_rows[r][i].channel]
        /\ \A i \in 1..Len(feed_rows[r]) :
               pick_log[r][i].unflagged
                   = {row.id : row \in {row \in PoolAt(r, i) : ~FlaggedAt(r, row, i)}}

\* W = 1 and S = 2: the third iteration blocked a candidate on the two
\* topics picked before it, of which the window held one
C25_Witness ==
    \E r \in Runs :
        /\ args[r].recent_window = 1
        /\ args[r].max_streak = 2
        /\ Len(feed_rows[r]) = 3
        /\ feed_rows[r][1].topic = feed_rows[r][2].topic
        /\ feed_rows[r][1].channel # feed_rows[r][2].channel
        /\ \E row \in PoolAt(r, 3) :
               /\ row.topic = feed_rows[r][2].topic
               /\ row.id \notin pick_log[r][3].unflagged

\* the input columns of a row
Base(row) ==
    [id |-> row.id, topic |-> row.topic, channel |-> row.channel,
     engagement |-> row.engagement, prosocial |-> row.prosocial,
     risk |-> row.risk]

\* how many entries of rows are the candidate c
Times(rows, c) == Cardinality({a \in 1..Len(rows) : Base(rows[a]) = c})

\* C26: the working pool shrinks by exactly one candidate per iteration and
\* never grows; after every iteration pool size + feed length is the
\* initial pool size, and pool and feed together hold exactly the initial
\* candidates, each once.
C26_PoolConservation ==
    /\ [](\A r \in Runs :
             pc[r] \in {"loop", "done"} =>
                 LET pool == frames[remaining[r]].rows
                 IN  /\ Len(pool) + Len(feed_rows[r]) = Len(df0.rows)
                     /\ \A j \in 1..Len(df0.rows) :
                            Times(pool, df0.rows[j])
                                + Times(feed_rows[r], df0.rows[j]) = 1)
    /\ [][\A r \in Runs :
             pc[r] = "loop" =>
                 LET before == Len(frames[remaining[r]].rows)
                     after == Len(frames'[remaining'[r]].rows)
                 IN  IF iter'[r] # iter[r] THEN after = before - 1
                     ELSE after = before]_vars

\* a build that stopped at k = 2 with one of three candidates left in the
\* pool, the first of the input picked last
C26_Witness ==
    \E r \in Finished :
        /\ Len(df0.rows) = 3
        /\ Len(feed_rows[r]) = 2
        /\ Len(frames[remaining[r]].rows) = 1
        /\ Base(feed_rows[r][2]) = df0.rows[1]

\* two Mode Resolver calls with equal arguments
SameCall(a, b) ==
    /\ a.fn = b.fn
    /\ a.preset = b.preset
    /\ a.night_mode = b.night_mode
    /\ a.k_default = b.k_default

\* C27: after any sequence of get_mode_settings and night_mode_settings
\* calls, failing ones included, the preset weight table is unchanged, and a
\* call with the arguments of the call before it ends the same way: the same
\* (weights, k) or the same error.
C27_ResolverPure ==
    /\ WEIGHTS = WEIGHTS0
    /\ (mode_prev.fn # "none" /\ SameCall(mode_prev, mode_ret)) =>
           /\ mode_ret.ret = mode_prev.ret
           /\ mode_ret.raised = mode_prev.raised

\* night mode resolved twice in a row for the same preset and default:
\* the same boosted weights both times, the table as it was
C27_Witness ==
    /\ mode_prev.fn = "get_mode_settings"
    /\ SameCall(mode_prev, mode_ret)
    /\ mode_ret.preset = "entertainment"
    /\ mode_ret.night_mode
    /\ mode_ret.raised = ""
    /\ mode_ret.ret = mode_prev.ret
    /\ mode_ret.ret[1] # WEIGHTS["entertainment"]

\* the external lookups made for video id v
LookupsOf(v) == {n \in 1..Len(lookup_log) : lookup_log[n].vid = v}

\* C28: under concurrently handled requests a status stored in the embed
\* cache for a video id is never replaced by a different status, at most
\* one external lookup is made per video id, and every response for that id
\* reports the stored status.
C28_EmbedCacheStable ==
    /\ [][\A v \in DOMAIN EMBED_CACHE :
             /\ v \in DOMAIN EMBED_CACHE'
             /\ EMBED_CACHE'[v] = EMBED_CACHE[v]]_vars
    /\ [](\A n \in 1..Len(lookup_log) :
             Cardinality(LookupsOf(lookup_log[n].vid)) <= 1)
    /\ [](\A t \in Handlers :
             handler[t].response.code = 200 =>
                 \A v \in DOMAIN handler[t].response.status :
                     /\ v \in DOMAIN EMBED_CACHE
                     /\ handler[t].response.status[v] = EMBED_CACHE[v])

====
